---- MODULE Spec2Model ----
(***************************************************************************)
(* Stethoscope AI backend, main.py v5.0: POST /api/v1/analyze and          *)
(* GET /api/v1/history behind Google ID-token authentication, with the     *)
(* per-user scan history kept in Firestore.                                *)
(*                                                                         *)
(* The Firestore database is the state that outlives a request.  The       *)
(* worker slots are the requests in flight; every Firestore round trip     *)
(* (set, query, delete) is one atomic step, so that requests served by     *)
(* different workers interleave between round trips.                       *)
(***************************************************************************)
EXTENDS Integers, Sequences, FiniteSets, TLC

\* ---------------------------------------------------------------- bounds
MaxClock == 7          \* server time after which no scan is written

\* ------------------------------------------------------ program constants
KEEP_SCANS == 5        \* "if len(scans_query) > 5" / "range(5, ...)"
PRUNE_LIMIT == 10      \* ".limit(10)" of the prune query
HISTORY_LIMIT == 5     \* ".limit(5)" of the history query
StartClock == KEEP_SCANS   \* server time at which the model starts

Users == {"alice", "bob"}
NoUser == "-"

\* ------------------------------------------------------------ bearer tokens
Tokens == {"tok_alice", "tok_bob", "tok_forged"}

\* id_token.verify_oauth2_token: the claims of a token Google signed for this
\* client, ValueError for any other token.
verify_oauth2_token(token) ==
    CASE token = "tok_alice" -> [raises |-> FALSE, sub |-> "alice"]
      [] token = "tok_bob"   -> [raises |-> FALSE, sub |-> "bob"]
      [] OTHER               -> [raises |-> TRUE,  sub |-> NoUser]

\* A fallback identity instead of the 401.
get_current_user_fallback(token) ==
    LET idinfo == verify_oauth2_token(token)
    IN  IF idinfo.raises
        THEN [ok |-> TRUE, user_id |-> "alice", status |-> 0]
        ELSE [ok |-> TRUE, user_id |-> idinfo.sub, status |-> 0]

\* get_current_user: the 'sub' of a verified token, HTTP 401 on ValueError.
get_current_user(token) ==
    LET idinfo == verify_oauth2_token(token)
    IN  IF idinfo.raises
        THEN [ok |-> FALSE, user_id |-> NoUser, status |-> 401]
        ELSE [ok |-> TRUE, user_id |-> idinfo.sub, status |-> 0]

\* ------------------------------------------------------- request payloads
\* The `data` strings submitted, each with what the three conversions of
\* lines 112-113 make of it.
Payloads == {
    "eyJjcHUiOiAxMH0=",                               \* {"cpu": 10}
    "eyJvc19pbmZvIjogeyJkaXN0cm8iOiAiVWJ1bnR1In19",   \* {"os_info": {"distro": "Ubuntu"}}
    "eyJvc19pbmZvIjogIlVidW50dSJ9",                   \* {"os_info": "Ubuntu"}
    "WzFd",                                           \* [1]
    "Y3B1PTEw",                                       \* cpu=10
    "//4=",                                           \* bytes ff fe
    "eyJjcHUiOiAxMH0",                                \* padding missing
    "!!!!" }                                          \* no base64 character

Raised(e) == [raises |-> TRUE, error |-> e, value |-> "-"]
Returned(v) == [raises |-> FALSE, error |-> "-", value |-> v]

\* base64.b64decode(s), validate=False: characters outside the alphabet are
\* dropped, then the padding must be right.
b64decode(s) ==
    CASE s = "eyJjcHUiOiAxMH0=" -> Returned("{\"cpu\": 10}")
      [] s = "eyJvc19pbmZvIjogeyJkaXN0cm8iOiAiVWJ1bnR1In19"
                                -> Returned("{\"os_info\": {\"distro\": \"Ubuntu\"}}")
      [] s = "eyJvc19pbmZvIjogIlVidW50dSJ9"
                                -> Returned("{\"os_info\": \"Ubuntu\"}")
      [] s = "WzFd"             -> Returned("[1]")
      [] s = "Y3B1PTEw"         -> Returned("cpu=10")
      [] s = "//4="             -> Returned("\\xff\\xfe")
      [] s = "!!!!"             -> Returned("")
      [] OTHER                  -> Raised("binascii.Error")

\* bytes.decode('utf-8')
utf8_decode(bytes) ==
    IF bytes = "\\xff\\xfe" THEN Raised("UnicodeDecodeError") ELSE Returned(bytes)

\* A parsed JSON value, as far as the handler looks into it: its type, the
\* type of its "os_info" member and that member's "distro".
JsonValue(t, os_info, distro) == [type |-> t, os_info |-> os_info, distro |-> distro]
NoJson == JsonValue("-", "-", "-")

\* json.loads(text)
json_loads(text) ==
    CASE text = "{\"cpu\": 10}" ->
            [raises |-> FALSE, error |-> "-", value |-> JsonValue("object", "absent", "absent")]
      [] text = "{\"os_info\": {\"distro\": \"Ubuntu\"}}" ->
            [raises |-> FALSE, error |-> "-", value |-> JsonValue("object", "object", "Ubuntu")]
      [] text = "{\"os_info\": \"Ubuntu\"}" ->
            [raises |-> FALSE, error |-> "-", value |-> JsonValue("object", "string", "absent")]
      [] text = "[1]" ->
            [raises |-> FALSE, error |-> "-", value |-> JsonValue("array", "-", "-")]
      [] OTHER ->
            [raises |-> TRUE, error |-> "JSONDecodeError", value |-> NoJson]

\* Lines 112-113 together: the parsed server_data or the exception raised.
parse_request(data) ==
    LET decoded_bytes == b64decode(data)
    IN  IF decoded_bytes.raises
        THEN [raises |-> TRUE, error |-> decoded_bytes.error, value |-> NoJson]
        ELSE LET text == utf8_decode(decoded_bytes.value)
             IN  IF text.raises
                 THEN [raises |-> TRUE, error |-> text.error, value |-> NoJson]
                 ELSE json_loads(text.value)

\* server_data.get('os_info', {}).get('distro', 'Unknown')
distro_of(server_data) ==
    CASE server_data.type # "object"      -> Raised("AttributeError")
      [] server_data.os_info = "absent"   -> Returned("Unknown")
      [] server_data.os_info = "object"   ->
            Returned(IF server_data.distro = "absent" THEN "Unknown" ELSE server_data.distro)
      [] OTHER                            -> Raised("AttributeError")

\* ------------------------------------------------------------ the model
\* A text is the sequence of its lines, a line the sequence of its pieces;
\* the piece "## " is the Markdown heading mark.
NoText == <<>>
Texts == { <<>>,
           << <<"## ", "Executive Summary">>, <<"### ", "Disk almost full">> >> }

\* model.generate_content(prompt) and response.text: an exception or a text.
ModelOutcomes == {[raises |-> TRUE, text |-> NoText]}
                 \cup {[raises |-> FALSE, text |-> t] : t \in Texts}

\* line.replace("## ", "")
remove_h2(line) == SelectSeq(line, LAMBDA piece : piece # "## ")

Synthesis(ok, report, summary, calls) ==
    [ok |-> ok, report |-> report, summary |-> summary, calls |-> calls]

\* A second attempt after a failed model call.
get_ai_synthesis_retry(data, outcome) ==
    CASE outcome.raises         -> Synthesis(FALSE, NoText, NoText, 2)
      [] Len(outcome.text) = 0  -> Synthesis(FALSE, NoText, NoText, 1)
      [] OTHER -> Synthesis(TRUE, outcome.text, remove_h2(outcome.text[1]), 1)

\* get_ai_synthesis: one generate_content call; the text and its first line
\* without the heading mark; every exception of the try block, the
\* IndexError of splitlines()[0] on an empty text included, leaves as
\* ConnectionError.
get_ai_synthesis(data, outcome) ==
    CASE outcome.raises         -> Synthesis(FALSE, NoText, NoText, 1)
      [] Len(outcome.text) = 0  -> Synthesis(FALSE, NoText, NoText, 1)
      [] OTHER -> Synthesis(TRUE, outcome.text, remove_h2(outcome.text[1]), 1)

\* ------------------------------------------------------------ responses
Response(status, detail) == [status |-> status, detail |-> detail]

\* str(e) of the exceptions the handlers meet
str(error) ==
    IF error = "ConnectionError"
    THEN <<"Could not get analysis from AI service: ", "Exception">>
    ELSE <<error>>

\* Every failure answered 503.
analyze_except_503(error) ==
    Response(503, <<"An unexpected error occurred: ">> \o str(error))

\* "except Exception as e" of analyze_server: HTTP 500 with str(e).
analyze_except(error) ==
    Response(500, <<"An unexpected error occurred: ">> \o str(error))

\* get_current_user's HTTPException
Unauthorized == Response(401, <<"Invalid authentication credentials">>)

\* An exception no handler catches: the framework's 500.
InternalServerError == Response(500, <<"Internal Server Error">>)

\* ------------------------------------------------------------ the state
VARIABLES
    req,     \* per worker: the request it serves, its locals, its response
    clock,   \* Firestore server time; a document's id and timestamp
    store    \* Firestore: analyses/{user}/scans, the documents of each user
vars == <<req, clock, store>>

\* The workers, each serving one request at a time.
Procs == DOMAIN req

\* A document of analyses/{user}/scans as doc_ref.set writes it (lines 119-124).
ScanDoc(id, report, summary, distro) ==
    [id |-> id, timestamp |-> id, report |-> report, summary |-> summary,
     distro |-> distro]

Ref(user, id) == [user |-> user, id |-> id]

Min(a, b) == IF a < b THEN a ELSE b

\* order_by('timestamp', direction=DESCENDING) over a set of references
RECURSIVE order_by_desc(_)
order_by_desc(refs) ==
    IF refs = {} THEN <<>>
    ELSE LET newest == CHOOSE r \in refs : \A o \in refs : o.id <= r.id
         IN  <<newest>> \o order_by_desc(refs \ {newest})

\* .limit(n)
limit(seq, n) == SubSeq(seq, 1, Min(n, Len(seq)))

scans(user) == {Ref(user, d.id) : d \in store[user]}

\* The prune query run over the scans of every user.
prune_query_all_users(user_id) ==
    limit(order_by_desc(UNION {scans(u) : u \in Users}), PRUNE_LIMIT)

\* Line 127: the caller's scans, newest first, at most 10.
prune_query(user_id) == limit(order_by_desc(scans(user_id)), PRUNE_LIMIT)

\* The history query with the limit of the prune query.
history_query_limit_10(user_id) == limit(order_by_desc(scans(user_id)), PRUNE_LIMIT)

\* Line 139: the caller's scans, newest first, at most 5.
history_query(user_id) == limit(order_by_desc(scans(user_id)), HISTORY_LIMIT)

document(ref) == CHOOSE d \in store[ref.user] : d.id = ref.id

\* datetime.isoformat()
isoformat(timestamp) == <<"iso8601", timestamp>>

\* Lines 143-149: the entry get_history returns for a document.
history_entry(ref) ==
    LET data == document(ref)
    IN  [id |-> ref.id, timestamp |-> isoformat(data.timestamp),
         report |-> data.report, summary |-> data.summary]

NoOutcome == [raises |-> FALSE, text |-> NoText]
NoResponse == Response(0, <<>>)

\* A worker slot that has served nothing yet.
Idle ==
    [pc |-> "idle", kind |-> "-", token |-> "-", data |-> "-", user_id |-> NoUser,
     outcome |-> NoOutcome, calls |-> 0, final_report |-> NoText, summary |-> NoText,
     distro |-> "-", doc |-> 0, scans_query |-> <<>>, i |-> 0, e |-> "-",
     response |-> NoResponse, report |-> NoText, history |-> <<>>]

\* The store that five analyze requests of alice, one after the other at
\* server times 1 to 5, leave behind: payload {"cpu": 10}, the model
\* answering its two-line text.
FiveScans ==
    LET text == << <<"## ", "Executive Summary">>, <<"### ", "Disk almost full">> >>
    IN  [u \in Users |->
            IF u = "alice"
            THEN {ScanDoc(t, text, remove_h2(text[1]), "Unknown") : t \in 1..KEEP_SCANS}
            ELSE {}]

EmptyStore == [u \in Users |-> {}]

\* One worker; the database holds nothing, or the scans of five earlier
\* requests of alice.
Init ==
    /\ store \in {EmptyStore, FiveScans}
    /\ clock = StartClock
    /\ req = [p \in {1} |-> Idle]

\* Two workers on the same databases.
ConcurrentProcs == {1, 2}
InitConcurrent ==
    /\ store \in {EmptyStore, FiveScans}
    /\ clock = StartClock
    /\ req = [p \in ConcurrentProcs |-> Idle]

\* One worker more than the prune query returns documents, on a database
\* nothing was written to, at server time 0.
BurstProcs == 1..(PRUNE_LIMIT + 1)
InitBurst ==
    /\ store = EmptyStore
    /\ clock = 0
    /\ req = [p \in BurstProcs |-> Idle]

Free(p) == req[p].pc \in {"idle", "done"}

\* The server time once the requests in flight have written their scans.
ClockPlanned == clock + Cardinality({q \in Procs : req[q].pc = "set"})

\* The slot's request ends with exception e answered by `response`.
Fail(r, e, response) == [r EXCEPT !.pc = "done", !.e = e, !.response = response]

\* An exception inside the try block of analyze_server (lines 133-134).
Except(r, e) == Fail(r, e, analyze_except(e))

\* The slot's request ends with {"status": "success", "report": final_report}.
Succeed(r) ==
    [r EXCEPT !.pc = "done", !.response = Response(200, <<"success">>),
              !.report = r.final_report]

\* ------------------------------------------------------------ POST /api/v1/analyze
\* Lines 110-115 and the evaluation of the argument of doc_ref.set
\* (line 123): authentication, decoding, parsing, the model call, the distro
\* lookup.  No Firestore round trip happens in here.
analyze_server(p, token, data, outcome) ==
    /\ Free(p)
    /\ LET auth == get_current_user(token)
           server_data == parse_request(data)
           synthesis == get_ai_synthesis(server_data.value, outcome)
           distro == distro_of(server_data.value)
           r0 == [Idle EXCEPT !.kind = "analyze", !.token = token, !.data = data,
                              !.user_id = auth.user_id]
           r1 == [r0 EXCEPT !.outcome = outcome, !.calls = synthesis.calls]
           r2 == [r1 EXCEPT !.final_report = synthesis.report,
                            !.summary = synthesis.summary]
       IN  \/ /\ ~auth.ok
              /\ req' = [req EXCEPT ![p] = Fail(r0, "ValueError", Unauthorized)]
           \/ /\ auth.ok
              /\ server_data.raises
              /\ req' = [req EXCEPT ![p] = Except(r0, server_data.error)]
           \/ /\ auth.ok
              /\ ~server_data.raises
              /\ ~synthesis.ok
              /\ req' = [req EXCEPT ![p] = Except(r1, "ConnectionError")]
           \/ /\ auth.ok
              /\ ~server_data.raises
              /\ synthesis.ok
              /\ distro.raises
              /\ req' = [req EXCEPT ![p] = Except(r2, distro.error)]
           \/ /\ auth.ok
              /\ ~server_data.raises
              /\ synthesis.ok
              /\ ~distro.raises
              /\ req' = [req EXCEPT ![p] =
                            [r2 EXCEPT !.pc = "set", !.distro = distro.value]]
    /\ UNCHANGED <<store, clock>>

\* Lines 118-124: doc_ref.set writes the new scan document, or raises.
analyze_server_set(p, fails) ==
    /\ req[p].pc = "set"
    /\ LET r == req[p]
       IN  IF fails
           THEN /\ req' = [req EXCEPT ![p] = Except(r, "set: GoogleAPICallError")]
                /\ UNCHANGED <<store, clock>>
           ELSE /\ clock' = clock + 1
                /\ store' = [store EXCEPT ![r.user_id] =
                                @ \cup {ScanDoc(clock + 1, r.final_report, r.summary, r.distro)}]
                /\ req' = [req EXCEPT ![p] = [r EXCEPT !.pc = "get", !.doc = clock + 1]]

\* Lines 127-129: the prune query, or its exception; with at most five
\* results the request succeeds (line 132).
analyze_server_get(p, fails) ==
    /\ req[p].pc = "get"
    /\ LET r == req[p]
           found == prune_query(r.user_id)
       IN  req' = [req EXCEPT ![p] =
                      IF fails THEN Except(r, "get: GoogleAPICallError")
                      ELSE IF Len(found) > KEEP_SCANS
                      THEN [r EXCEPT !.pc = "delete", !.scans_query = found,
                                     !.i = KEEP_SCANS + 1]
                      ELSE Succeed([r EXCEPT !.scans_query = found])]
    /\ UNCHANGED <<store, clock>>

\* Line 130: scans_query[i].reference.delete(), or its exception; after the
\* last one the request succeeds (line 132).  Deleting a document that is
\* gone already succeeds.
analyze_server_delete(p, fails) ==
    /\ req[p].pc = "delete"
    /\ LET r == req[p]
           ref == r.scans_query[r.i]
       IN  IF fails
           THEN /\ req' = [req EXCEPT ![p] = Except(r, "delete: GoogleAPICallError")]
                /\ UNCHANGED store
           ELSE /\ store' = [store EXCEPT ![ref.user] = {d \in @ : d.id # ref.id}]
                /\ req' = [req EXCEPT ![p] =
                              IF r.i + 1 > Len(r.scans_query)
                              THEN Succeed([r EXCEPT !.i = r.i + 1])
                              ELSE [r EXCEPT !.i = r.i + 1]]
    /\ UNCHANGED clock

\* ------------------------------------------------------------ GET /api/v1/history
\* Lines 137-150: authentication, one query, the entries of its documents.
get_history(p, token, fails) ==
    /\ Free(p)
    /\ LET auth == get_current_user(token)
           r0 == [Idle EXCEPT !.kind = "history", !.token = token,
                              !.user_id = auth.user_id]
           docs == history_query(auth.user_id)
       IN  req' = [req EXCEPT ![p] =
                      IF ~auth.ok THEN Fail(r0, "ValueError", Unauthorized)
                      ELSE IF fails THEN Fail(r0, "stream: GoogleAPICallError", InternalServerError)
                      ELSE [r0 EXCEPT !.pc = "done",
                                      !.response = Response(200, <<>>),
                                      !.history = [k \in 1..Len(docs) |-> history_entry(docs[k])]]]
    /\ UNCHANGED <<store, clock>>

\* A request that goes on to write its scan starts only while the server
\* time it will write at is below MaxClock.
Capped(p) == req'[p].pc = "set" => ClockPlanned < MaxClock

\* One worker: requests one after the other, with every kind of token,
\* payload, model outcome and Firestore failure.
Next ==
    \/ \E token \in Tokens, data \in Payloads, outcome \in ModelOutcomes :
          analyze_server(1, token, data, outcome) /\ Capped(1)
    \/ \E fails \in BOOLEAN : analyze_server_set(1, fails)
    \/ \E fails \in BOOLEAN : analyze_server_get(1, fails)
    \/ \E fails \in BOOLEAN : analyze_server_delete(1, fails)
    \/ \E token \in Tokens, fails \in BOOLEAN : get_history(1, token, fails)

Spec == Init /\ [][Next]_vars

\* Two workers whose Firestore round trips interleave; every round trip may
\* fail.  One payload that parses and one that does not, a model that
\* answers or raises.
ConcurrentPayloads == {"eyJjcHUiOiAxMH0=", "eyJjcHUiOiAxMH0"}
ConcurrentOutcomes == {o \in ModelOutcomes : o.raises \/ o.text # NoText}

NextConcurrent ==
    \E p \in ConcurrentProcs :
        \/ \E token \in Tokens, data \in ConcurrentPayloads, outcome \in ConcurrentOutcomes :
              analyze_server(p, token, data, outcome) /\ Capped(p)
        \/ \E fails \in BOOLEAN : analyze_server_set(p, fails)
        \/ \E fails \in BOOLEAN : analyze_server_get(p, fails)
        \/ \E fails \in BOOLEAN : analyze_server_delete(p, fails)
        \/ \E token \in Tokens, fails \in BOOLEAN : get_history(p, token, fails)

SpecConcurrent == InitConcurrent /\ [][NextConcurrent]_vars

\* A burst: every worker serves one well-formed analyze request of alice on a
\* database that holds nothing yet, no Firestore round trip fails, and the
\* workers advance together: a worker takes its next round trip only when no
\* worker is a round trip behind it, and the workers write their scans in
\* the order of their numbers.  Every behaviour of the burst is a behaviour
\* of freely interleaved workers.
Stage(r) ==
    CASE r.pc = "idle"   -> 0
      [] r.pc = "set"    -> 1
      [] r.pc = "get"    -> 2
      [] r.pc = "delete" -> 3 + (r.i - (KEEP_SCANS + 1))
      [] OTHER           -> 3 + PRUNE_LIMIT

NotAhead(p) == \A q \in Procs : Stage(req[q]) >= Stage(req[p])
InTurn(p) == \A q \in Procs : q < p => Stage(req[q]) > Stage(req[p])

BurstPayload == "eyJjcHUiOiAxMH0="
BurstOutcome ==
    [raises |-> FALSE,
     text |-> << <<"## ", "Executive Summary">>, <<"### ", "Disk almost full">> >>]

NextBurst ==
    \E p \in Procs :
        \/ /\ NotAhead(p) /\ req[p].pc = "idle"
           /\ analyze_server(p, "tok_alice", BurstPayload, BurstOutcome)
        \/ NotAhead(p) /\ InTurn(p) /\ analyze_server_set(p, FALSE)
        \/ NotAhead(p) /\ analyze_server_get(p, FALSE)
        \/ NotAhead(p) /\ analyze_server_delete(p, FALSE)

SpecBurst == InitBurst /\ [][NextBurst]_vars

\* ------------------------------------------------------------ the claims
Done(p) == req[p].pc = "done"
Analyze(p) == req[p].kind = "analyze"
History(p) == req[p].kind = "history"
Status(p) == req[p].response.status

\* The tokens Google signed and the payloads by what they are.
SignedTokens == {"tok_alice", "tok_bob"}
JsonObjectPayloads == {"eyJjcHUiOiAxMH0=",
                       "eyJvc19pbmZvIjogeyJkaXN0cm8iOiAiVWJ1bnR1In19",
                       "eyJvc19pbmZvIjogIlVidW50dSJ9"}
JsonPayloads == JsonObjectPayloads \cup {"WzFd"}
MalformedPayloads == Payloads \ JsonPayloads
FirestoreErrors == {"set: GoogleAPICallError", "get: GoogleAPICallError",
                    "delete: GoogleAPICallError"}
MentionsUnavailable(detail) ==
    \E k \in DOMAIN detail : detail[k] \in {"Service unavailable", "AI service unavailable"}

\* The scans a request has deleted so far.
Deleted(r) ==
    IF r.i = 0 THEN {} ELSE {r.scans_query[k] : k \in (KEEP_SCANS + 1)..(r.i - 1)}

\* C1: an authenticated analyze request whose data is the base64 of a JSON
\* object (an os_info member that is no object included), whose model call
\* returns text T and whose Firestore round trips all succeed, is answered
\* 200 with report = T.  Stated for the texts T of at least one line.
C1_ReportIsModelText ==
    \A p \in Procs :
        (/\ Done(p) /\ Analyze(p)
         /\ req[p].token \in SignedTokens
         /\ req[p].data \in JsonObjectPayloads
         /\ ~req[p].outcome.raises
         /\ req[p].outcome.text # NoText
         /\ req[p].e \notin FirestoreErrors)
        => (Status(p) = 200 /\ req[p].report = req[p].outcome.text)

\* C2: an analyze request whose data is not valid base64, or not the base64
\* of UTF-8 JSON, is answered 400.
C2_MalformedIs400 ==
    \A p \in Procs :
        (/\ Done(p) /\ Analyze(p)
         /\ req[p].token \in SignedTokens
         /\ req[p].data \in MalformedPayloads)
        => Status(p) = 400

\* C3: an analyze request whose payload parses and whose model call raises
\* is answered 503 with a detail that mentions the unavailable service.
C3_ModelFailureIs503 ==
    \A p \in Procs :
        (/\ Done(p) /\ Analyze(p)
         /\ req[p].token \in SignedTokens
         /\ req[p].data \in JsonPayloads
         /\ req[p].outcome.raises)
        => (Status(p) = 503 /\ MentionsUnavailable(req[p].response.detail))

\* C4: an analyze request that fails after successful parsing for a reason
\* other than the model call (the distro lookup, the save, the prune query,
\* a prune delete) is answered 500.
C4_OtherFailureIs500 ==
    \A p \in Procs :
        (/\ Done(p) /\ Analyze(p)
         /\ req[p].e \in FirestoreErrors \cup {"AttributeError"})
        => Status(p) = 500

C4_Witness ==
    /\ Done(1) /\ Analyze(1)
    /\ req[1].e = "delete: GoogleAPICallError"
    /\ req[1].data \in JsonObjectPayloads
    /\ req[1].doc # 0
    /\ Status(1) = 500

\* C5 as stated: every analyze request makes exactly one model call,
\* whatever its outcome.  Stated for the requests whose token verifies.
C5_ExactlyOneCall ==
    \A p \in Procs :
        (Done(p) /\ Analyze(p) /\ req[p].token \in SignedTokens) => req[p].calls = 1

\* C5 amended: an analyze request makes one model call when its token
\* verifies and its payload parses, and none otherwise; never more than one,
\* also when the call fails, and also when another request carried the same
\* payload.
C5_OneCallWhenParsed ==
    \A p \in Procs :
        Analyze(p) =>
            req[p].calls = (IF req[p].token \in SignedTokens /\ req[p].data \in JsonPayloads
                            THEN 1 ELSE 0)

\* Two requests with the same token and payload, the first answered 200, the
\* second with its model call failing: one call each.
C5_Witness ==
    /\ Done(1) /\ Analyze(1) /\ Done(2) /\ Analyze(2)
    /\ req[1].token = req[2].token /\ req[1].data = req[2].data
    /\ req[1].data \in JsonPayloads
    /\ Status(1) = 200 /\ req[2].outcome.raises
    /\ req[1].calls = 1 /\ req[2].calls = 1

\* A step of the analyze request in slot p.
AnalyzeStep(p) == req'[p] # req[p] /\ req'[p].kind = "analyze"

Quiescent == \A p \in Procs : req[p].pc \in {"idle", "done"}

\* C7: whenever no analyze request is in progress, each user has at most
\* five stored scans, and a scan some request wrote that is stored no more is
\* older than every stored scan of its user.
C7_CappedAtFive ==
    Quiescent =>
        \A u \in Users :
            /\ Cardinality(store[u]) <= KEEP_SCANS
            /\ \A p \in Procs :
                  (/\ req[p].user_id = u /\ req[p].doc # 0
                   /\ \A d \in store[u] : d.id # req[p].doc)
                  => \A d \in store[u] : d.id > req[p].doc

\* The history request in slot p is answered 200 in this step.
HistoryStep(p) ==
    /\ req'[p] # req[p]
    /\ req'[p].kind = "history"
    /\ req'[p].response.status = 200

\* C8: a history request of user u returns at most five entries, all of
\* them stored scans of u and of no other user, u's newest scans in
\* descending timestamp order, and changes no stored scan.
C8_HistoryNewestFive ==
    [][\A p \in Procs :
          HistoryStep(p) =>
              LET u == req'[p].user_id
                  h == req'[p].history
                  ids == {d.id : d \in store[u]}
              IN  /\ store' = store
                  /\ Len(h) = Min(5, Cardinality(ids))
                  /\ \A k \in DOMAIN h :
                        /\ h[k].id \in ids
                        /\ \A v \in Users \ {u} : \A d \in store[v] : d.id # h[k].id
                        /\ h[k].report = document(Ref(u, h[k].id)).report
                  /\ \A k \in DOMAIN h : \A j \in DOMAIN h : k < j => h[k].id > h[j].id
                  /\ \A k \in DOMAIN h : \A i \in ids :
                        i > h[k].id => \E j \in DOMAIN h : h[j].id = i
      ]_vars

\* alice's history holds five entries while she has six scans stored and bob
\* has one.
C8_Witness ==
    \E p \in Procs :
        /\ Done(p) /\ History(p) /\ Status(p) = 200
        /\ req[p].user_id = "alice"
        /\ Len(req[p].history) = 5
        /\ Cardinality(store["alice"]) > 5
        /\ store["bob"] # {}
        /\ \A k \in DOMAIN req[p].history :
              \E d \in store["alice"] : d.id = req[p].history[k].id

\* C9: an analyze request answered with an error has saved no scan and
\* deleted none.
C9_ErrorLeavesStore ==
    \A p \in Procs :
        (Done(p) /\ Analyze(p) /\ Status(p) # 200)
        => (req[p].doc = 0 /\ Deleted(req[p]) = {})

\* C10: a request whose token fails verification is answered 401 and its
\* handler body has not run: no model call, no query result, no scan saved
\* or deleted.
C10_ForgedTokenIs401 ==
    \A p \in Procs :
        (Done(p) /\ req[p].token \notin SignedTokens)
        => /\ Status(p) = 401
           /\ req[p].calls = 0
           /\ req[p].final_report = NoText
           /\ req[p].doc = 0
           /\ req[p].scans_query = <<>>
           /\ Deleted(req[p]) = {}
           /\ req[p].history = <<>>
           /\ req[p].report = NoText

\* A forged token on an analyze request whose payload parses, and on a
\* history request of a database that holds scans.
C10_Witness ==
    /\ Done(1) /\ Analyze(1) /\ req[1].token \notin SignedTokens
    /\ req[1].data \in JsonPayloads
    /\ Done(2) /\ History(2) /\ req[2].token \notin SignedTokens
    /\ store["alice"] # {}

====
